---- MODULE Spec2Model ----
\* Model of the video pipeline of multi_video.py (app.py carries the same
\* create_cinematic_video and run loop): clip loading, duration
\* reconciliation, caption timeline, encode, and the per-project /
\* per-language run loop with its temporary audio files.
EXTENDS Integers, Sequences, FiniteSets, TLC

\* ------------------------------------------------------------------
\* Bounds of the model
\* ------------------------------------------------------------------
MaxClips == 2
MaxSentences == 2
NumProjects == 1

\* ------------------------------------------------------------------
\* Exact rational time values <<numerator, denominator>>, denominator > 0,
\* in lowest terms.  Python floats are abstracted to exact rationals.
\* ------------------------------------------------------------------
Abs(n) == IF n < 0 THEN -n ELSE n

RECURSIVE GCD(_, _)
GCD(a, b) == IF b = 0 THEN a ELSE GCD(b, a % b)

Norm(n, d) == LET g == GCD(Abs(n), d) IN <<n \div g, d \div g>>

Zero == <<0, 1>>
RInt(k) == <<k, 1>>
RAdd(x, y) == Norm(x[1] * y[2] + y[1] * x[2], x[2] * y[2])
RSub(x, y) == Norm(x[1] * y[2] - y[1] * x[2], x[2] * y[2])
RMulInt(x, k) == Norm(x[1] * k, x[2])
RDivInt(x, k) == Norm(x[1], x[2] * k)
RLess(x, y) == x[1] * y[2] < y[1] * x[2]
RLeq(x, y) == x[1] * y[2] <= y[1] * x[2]
\* int(x / y) for x >= 0, y > 0: truncation of the quotient
RIntDiv(x, y) == (x[1] * y[2]) \div (y[1] * x[2])

\* ------------------------------------------------------------------
\* Text: a sentence is a sequence of characters
\* ------------------------------------------------------------------
Space == " "

\* str.split(): the maximal runs of non-whitespace characters
RECURSIVE SplitFrom(_, _, _)
SplitFrom(s, i, cur) ==
    IF i > Len(s) THEN (IF cur = <<>> THEN <<>> ELSE <<cur>>)
    ELSE IF s[i] = Space
         THEN (IF cur = <<>> THEN <<>> ELSE <<cur>>) \o SplitFrom(s, i + 1, <<>>)
         ELSE SplitFrom(s, i + 1, Append(cur, s[i]))

Split(sentence) == SplitFrom(sentence, 1, <<>>)

UpperChar(c) ==
    CASE c = "a" -> "A" [] c = "b" -> "B" [] c = "c" -> "C"
      [] c = "x" -> "X" [] c = "y" -> "Y" [] OTHER -> c

\* str.upper()
Upper(word) == [i \in 1..Len(word) |-> UpperChar(word[i])]

\* ------------------------------------------------------------------
\* The environment: what a clip path, the audio path and the encoder can do
\* ------------------------------------------------------------------
\* os.path.exists(path) / VideoFileClip(path) and the clip's duration
ClipFiles ==
    { [exists |-> FALSE, loads |-> FALSE, duration |-> Zero],
      [exists |-> TRUE,  loads |-> FALSE, duration |-> Zero],
      [exists |-> TRUE,  loads |-> TRUE,  duration |-> <<1, 5>>],
      [exists |-> TRUE,  loads |-> TRUE,  duration |-> <<23, 20>>] }

AudioDurations == { Zero, <<1, 2>>, RInt(1), RInt(2), RInt(3) }

\* AudioFileClip(audio_path): the open can fail, the duration can be
\* unreadable (both raise), or the clip has a duration (possibly 0)
AudioFiles ==
    { [opens |-> FALSE, readable |-> FALSE, duration |-> Zero],
      [opens |-> TRUE,  readable |-> FALSE, duration |-> Zero] }
    \cup { [opens |-> TRUE, readable |-> TRUE, duration |-> d] : d \in AudioDurations }

\* caption sentences: whitespace only, two words, one word
SentencePool == { <<" ">>, <<"a", " ", "b">>, <<"c">> }

SeqsUpTo(S, n) == UNION { [1..k -> S] : k \in 0..n }

\* ------------------------------------------------------------------
\* create_cinematic_video, stage by stage, on a frame of its locals
\* ------------------------------------------------------------------
TrimThreshold == <<1, 5>>      \* 0.2
TailTrim == <<3, 20>>          \* 0.15

\* clip.subclip(t_start, t_end): the new clip's duration is t_end - t_start
SubclipDuration(t_start, t_end) == RSub(t_end, t_start)

\* the trim applied from 0.2 s on
TrimTail_AtThreshold(duration) ==
    IF RLeq(TrimThreshold, duration)
    THEN SubclipDuration(Zero, RSub(duration, TailTrim))
    ELSE duration

\* if clip.duration > 0.2: clip = clip.subclip(0, clip.duration - 0.15)
TrimTail(duration) ==
    IF RLess(TrimThreshold, duration)
    THEN SubclipDuration(Zero, RSub(duration, TailTrim))
    ELSE duration

\* os.path.exists(path) and no exception inside the try block
Loadable(file) == file.exists /\ file.loads

ProcessClip(path, file) ==
    [path |-> path, duration |-> TrimTail(file.duration), closed |-> FALSE]

\* the loop left at the first path that is missing or fails to load
RECURSIVE LoadClips_StopAtFailure(_, _, _)
LoadClips_StopAtFailure(video_paths, files, i) ==
    IF i > Len(video_paths) \/ ~Loadable(files[i]) THEN <<>>
    ELSE <<ProcessClip(video_paths[i], files[i])>>
         \o LoadClips_StopAtFailure(video_paths, files, i + 1)

\* for path in video_paths: ... processed_clips.append(clip)
RECURSIVE LoadClips(_, _, _)
LoadClips(video_paths, files, i) ==
    IF i > Len(video_paths) THEN <<>>
    ELSE (IF Loadable(files[i]) THEN <<ProcessClip(video_paths[i], files[i])>> ELSE <<>>)
         \o LoadClips(video_paths, files, i + 1)

\* the empty check left out
NoClips_Never(processed_clips) == FALSE

\* if not processed_clips
NoClips(processed_clips) == processed_clips = <<>>

RECURSIVE SumDuration(_, _)
SumDuration(clips, i) ==
    IF i > Len(clips) THEN Zero ELSE RAdd(clips[i].duration, SumDuration(clips, i + 1))

NoTrack ==
    [exists |-> FALSE, base |-> Zero, looped |-> FALSE, loops |-> 0,
     pre |-> Zero, duration |-> Zero, hasAudio |-> FALSE]

\* concatenate_videoclips(processed_clips, method="compose")
Concatenate(clips) ==
    LET d == SumDuration(clips, 1)
    IN [exists |-> TRUE, base |-> d, looped |-> FALSE, loops |-> 0,
        pre |-> d, duration |-> d, hasAudio |-> FALSE]

NoAudio == [opens |-> FALSE, readable |-> FALSE, duration |-> Zero]

IdleFrame ==
    [pc |-> "idle", video_paths |-> <<>>, captions_list |-> <<>>, files |-> <<>>,
     processed_clips |-> <<>>, final_bg |-> NoTrack, audio |-> NoAudio,
     audioLoads |-> 0, duration_per_sentence |-> Zero, text_clips |-> <<>>,
     current_time |-> Zero, encodeCalls |-> 0, outputWritten |-> FALSE,
     videoClosed |-> FALSE, retval |-> "none", raisedAt |-> "none"]

CCVEnter(video_paths, captions_list) ==
    [IdleFrame EXCEPT !.pc = "load", !.video_paths = video_paths,
                      !.captions_list = captions_list]

\* lines 231-261: the load loop, the empty check and the concatenation
CCVLoad(f, files) ==
    LET clips == LoadClips(f.video_paths, files, 1)
        g == [f EXCEPT !.files = files, !.processed_clips = clips]
    IN IF NoClips(clips)
       THEN [g EXCEPT !.pc = "returned", !.retval = "False"]
       ELSE IF clips = <<>>
            THEN [g EXCEPT !.pc = "raised", !.raisedAt = "concatenate"]
            ELSE [g EXCEPT !.pc = "reconcile", !.final_bg = Concatenate(clips)]

\* an audio load that never raises
AudioLoads_Always(file) == TRUE

\* AudioFileClip(audio_path) returns instead of raising
AudioLoads(file) == file.opens /\ file.readable

\* the quotient without the extra repetition
Loops_NoPlusOne(audio_duration, track_duration) ==
    RIntDiv(audio_duration, track_duration)

\* loops = int(audio.duration / final_bg.duration) + 1
Loops(audio_duration, track_duration) == RIntDiv(audio_duration, track_duration) + 1

\* if audio.duration > final_bg.duration: concatenate_videoclips([final_bg] * loops)
LoopTrack(track, audio_duration) ==
    IF RLess(track.duration, audio_duration)
    THEN LET n == Loops(audio_duration, track.duration)
         IN [track EXCEPT !.looped = TRUE, !.loops = n,
                          !.pre = RMulInt(track.duration, n),
                          !.duration = RMulInt(track.duration, n)]
    ELSE track

\* the audio bound without the trim
TrimToAudio_NoTrim(track, audio_duration) == [track EXCEPT !.hasAudio = TRUE]

\* final_bg.subclip(0, audio.duration).set_audio(audio)
TrimToAudio(track, audio_duration) ==
    [track EXCEPT !.duration = SubclipDuration(Zero, audio_duration),
                  !.hasAudio = TRUE]

\* lines 263-272: the try block around the audio
CCVReconcile(f, audioFile) ==
    LET g == [f EXCEPT !.audioLoads = f.audioLoads + 1]
    IN IF ~AudioLoads(audioFile)
       THEN [g EXCEPT !.pc = "returned", !.retval = "False"]
       ELSE [g EXCEPT !.pc = "timeline", !.audio = audioFile,
                      !.final_bg = TrimToAudio(LoopTrack(f.final_bg, audioFile.duration),
                                               audioFile.duration)]

\* the whole duration given to every sentence
DurationPerSentence_Whole(duration, captions_list) == duration

\* duration_per_sentence = final_bg.duration / len(captions_list)
DurationPerSentence(duration, captions_list) == RDivInt(duration, Len(captions_list))

\* the sentence's share given to every word
DurationPerWord_Undivided(duration_per_sentence, words) == duration_per_sentence

\* duration_per_word = duration_per_sentence / len(words)
DurationPerWord(duration_per_sentence, words) ==
    RDivInt(duration_per_sentence, Len(words))

\* the cursor left where it is
Advance_Stuck(current_time, duration_per_word) == current_time

\* current_time += duration_per_word
Advance(current_time, duration_per_word) == RAdd(current_time, duration_per_word)

\* for word in words: one text clip per word, starting at the running cursor
RECURSIVE WordClips(_, _, _, _)
WordClips(words, i, current_time, duration_per_word) ==
    IF i > Len(words) THEN [clips |-> <<>>, time |-> current_time]
    ELSE LET rest == WordClips(words, i + 1, Advance(current_time, duration_per_word),
                               duration_per_word)
         IN [clips |-> <<[text |-> Upper(words[i]), start |-> current_time,
                          duration |-> duration_per_word]>> \o rest.clips,
             time |-> rest.time]

\* for sentence in captions_list: words = sentence.split(); if not words: continue
RECURSIVE SentenceClips(_, _, _, _)
SentenceClips(captions_list, i, current_time, duration_per_sentence) ==
    IF i > Len(captions_list) THEN [clips |-> <<>>, time |-> current_time]
    ELSE LET words == Split(captions_list[i])
         IN IF words = <<>>
            THEN SentenceClips(captions_list, i + 1, current_time, duration_per_sentence)
            ELSE LET here == WordClips(words, 1, current_time,
                                       DurationPerWord(duration_per_sentence, words))
                     rest == SentenceClips(captions_list, i + 1, here.time,
                                           duration_per_sentence)
                 IN [clips |-> here.clips \o rest.clips, time |-> rest.time]

\* lines 274-294: the division raises ZeroDivisionError on an empty list
CCVTimeline(f) ==
    IF Len(f.captions_list) = 0
    THEN [f EXCEPT !.pc = "raised", !.raisedAt = "timeline"]
    ELSE LET dps == DurationPerSentence(f.final_bg.duration, f.captions_list)
             t == SentenceClips(f.captions_list, 1, Zero, dps)
         IN [f EXCEPT !.pc = "encode", !.duration_per_sentence = dps,
                      !.text_clips = t.clips, !.current_time = t.time]

\* for clip in processed_clips: clip.close()
CloseAll(clips) == [i \in 1..Len(clips) |-> [clips[i] EXCEPT !.closed = TRUE]]

\* lines 296-314: write_videofile, then the closes and return True; an
\* exception of the encoder leaves the function before the closes
CCVRender(f, encodeOk) ==
    LET g == [f EXCEPT !.encodeCalls = f.encodeCalls + 1]
    IN IF ~encodeOk
       THEN [g EXCEPT !.pc = "raised", !.raisedAt = "encode"]
       ELSE [g EXCEPT !.pc = "returned", !.retval = "True", !.outputWritten = TRUE,
                      !.videoClosed = TRUE,
                      !.processed_clips = CloseAll(f.processed_clips)]

\* the whole call, for the run loop
RunCCV(video_paths, captions_list, files, audioFile, encodeOk) ==
    LET f1 == CCVLoad(CCVEnter(video_paths, captions_list), files)
        f2 == IF f1.pc = "reconcile" THEN CCVReconcile(f1, audioFile) ELSE f1
        f3 == IF f2.pc = "timeline" THEN CCVTimeline(f2) ELSE f2
    IN IF f3.pc = "encode" THEN CCVRender(f3, encodeOk) ELSE f3

\* ------------------------------------------------------------------
\* create_pil_text_image: text shaping, font choice, font size, centering
\* ------------------------------------------------------------------
TARGET_WIDTH == 1080
TARGET_HEIGHT == 1920

\* the two copies of the function: multi_video.py and app.py
Programs == {"multi_video", "app"}

\* locale codes of the LANGUAGES table, and the default 'en'
LocaleCodes == {"en", "es", "fr", "ar", "pt", "de", "tr", "ja"}

\* letters of a right-to-left script and their presentation forms
RTLLetters == {"alef", "ba"}
RTLForms == {"alef_form", "ba_form"}

\* words handed to the renderer: one Latin, one of right-to-left letters
TextPool == { <<"A", "B">>, <<"alef", "ba">> }

\* arabic_reshaper.reshape: every right-to-left letter becomes its
\* presentation form, other characters stay
ReshapeChar(c) ==
    CASE c = "alef" -> "alef_form" [] c = "ba" -> "ba_form" [] OTHER -> c

reshape(text) == [i \in 1..Len(text) |-> ReshapeChar(text[i])]

Reverse(text) == [i \in 1..Len(text) |-> text[Len(text) + 1 - i]]

\* bidi get_display of a word of one script: a right-to-left word is put in
\* visual order, a left-to-right word stays
get_display(text) ==
    IF \E i \in 1..Len(text) : text[i] \in RTLLetters \cup RTLForms
    THEN Reverse(text)
    ELSE text

\* if lang_code == 'ar': final_text = get_display(arabic_reshaper.reshape(text))
FinalText(text, lang_code) ==
    IF lang_code = "ar" THEN get_display(reshape(text)) ELSE text

\* multi_video.py: font_to_use
FontToUseMV(lang_code) ==
    IF lang_code = "ar" THEN "ARABIC_FONT_PATH"
    ELSE IF lang_code = "ja" THEN "JAPANESE_FONT_PATH"
    ELSE "FONT_PATH"

\* app.py: font_to_use = ARABIC_FONT_PATH if lang_code == 'ar' else FONT_PATH
FontToUseApp(lang_code) ==
    IF lang_code = "ar" THEN "ARABIC_FONT_PATH" ELSE "FONT_PATH"

FontToUse(program, lang_code) ==
    IF program = "app" THEN FontToUseApp(lang_code) ELSE FontToUseMV(lang_code)

\* the size fraction without a case for 'ja'
ScaleFactorMV_NoJa(lang_code) == IF lang_code = "ar" THEN 10 ELSE 13

\* multi_video.py: scale_factor, in hundredths
ScaleFactorMV(lang_code) ==
    IF lang_code = "ar" THEN 10
    ELSE IF lang_code = "ja" THEN 12
    ELSE 13

\* app.py: 0.10 if lang_code == 'ar' else 0.13, in hundredths
ScaleFactorApp(lang_code) == IF lang_code = "ar" THEN 10 ELSE 13

ScaleFactor(program, lang_code) ==
    IF program = "app" THEN ScaleFactorApp(lang_code) ELSE ScaleFactorMV(lang_code)

\* target_font_size = int(video_w * scale_factor)
TargetFontSize(video_w, hundredths) == (video_w * hundredths) \div 100

\* the font files the environment can offer: the script font exists or not,
\* ImageFont.truetype loads it or raises, and arial.ttf loads or raises
FontEnvs ==
    { [fontExists |-> e, fontLoads |-> l, arialLoads |-> a] :
        e \in BOOLEAN, l \in BOOLEAN, a \in BOOLEAN }

\* if os.path.exists(font_to_use): try truetype(font_to_use) except default
\* else: try truetype("arial.ttf") except default
ResolveFont(env) ==
    IF env.fontExists
    THEN IF env.fontLoads
         THEN [font |-> "script", tried |-> <<"script">>]
         ELSE [font |-> "default", tried |-> <<"script", "default">>]
    ELSE IF env.arialLoads
         THEN [font |-> "system", tried |-> <<"script", "system">>]
         ELSE [font |-> "default", tried |-> <<"script", "system", "default">>]

\* draw.textbbox((0, 0), final_text, font=font): width and height of the text
TextBoxes == { <<200, 100>>, <<1201, 151>> }

\* x_pos = (video_w - text_w) // 2
Centered(canvas, extent) == (canvas - extent) \div 2

IdleImage ==
    [pc |-> "idle", program |-> "multi_video", text |-> <<>>, video_w |-> 0,
     video_h |-> 0, lang_code |-> "en", final_text |-> <<>>, reshaped |-> FALSE,
     font_to_use |-> "none", target_font_size |-> 0, font |-> "none",
     tried |-> <<>>, img_size |-> <<0, 0>>, text_w |-> 0, text_h |-> 0,
     x_pos |-> 0, y_pos |-> 0]

PILEnter(program, text, video_w, video_h, lang_code) ==
    [IdleImage EXCEPT !.pc = "call", !.program = program, !.text = text,
                      !.video_w = video_w, !.video_h = video_h,
                      !.lang_code = lang_code]

\* the whole function
PILRender(f, env, box) ==
    LET r == ResolveFont(env)
    IN [f EXCEPT !.pc = "returned",
                 !.final_text = FinalText(f.text, f.lang_code),
                 !.reshaped = (f.lang_code = "ar"),
                 !.font_to_use = FontToUse(f.program, f.lang_code),
                 !.target_font_size =
                     TargetFontSize(f.video_w, ScaleFactor(f.program, f.lang_code)),
                 !.font = r.font,
                 !.tried = r.tried,
                 !.img_size = <<f.video_w, f.video_h>>,
                 !.text_w = box[1],
                 !.text_h = box[2],
                 !.x_pos = Centered(f.video_w, box[1]),
                 !.y_pos = Centered(f.video_h, box[2])]

\* ------------------------------------------------------------------
\* The files of a job, and two jobs of the run loop run side by side
\* ------------------------------------------------------------------
\* LANGUAGES: name and code of every entry
LANGUAGES ==
    << [name |-> "Spanish",    code |-> "es"],
       [name |-> "French",     code |-> "fr"],
       [name |-> "Arabic",     code |-> "ar"],
       [name |-> "Portuguese", code |-> "pt"],
       [name |-> "German",     code |-> "de"],
       [name |-> "Turkish",    code |-> "tr"],
       [name |-> "Japanese",   code |-> "ja"] >>

\* subfolders of the videos directory
ProjectNames == {"Summer", "Winter"}

ParJobs == ProjectNames \X (1..Len(LANGUAGES))

\* the temp path without the project folder
TempPath_NoProject(project_name, lang_code) == <<"temp", "temp_", lang_code, ".mp3">>

\* os.path.join(BASE_TEMP_DIR, project_name, f"temp_{lang_code}.mp3")
TempPath(project_name, lang_code) ==
    <<"temp", project_name, "temp_", lang_code, ".mp3">>

\* os.path.join(BASE_RESULT_DIR, project_name, f"Output_{lang_name}.mp4")
OutputPath(project_name, lang_name) ==
    <<"result", project_name, "Output_", lang_name, ".mp4">>

AudioPathOf(j) == TempPath(j[1], LANGUAGES[j[2]].code)
VideoPathOf(j) == OutputPath(j[1], LANGUAGES[j[2]].name)

\* the file at a path: absent (0), or last written by job 1 or job 2
IdlePar ==
    [pc |-> <<"idle", "idle">>, job |-> <<>>, fs |-> <<>>, clash |-> FALSE]

ParEnter(j1, j2) ==
    [pc |-> <<"audio", "audio">>, job |-> <<j1, j2>>,
     fs |-> [q \in {AudioPathOf(j1), AudioPathOf(j2), VideoPathOf(j1), VideoPathOf(j2)}
                |-> 0],
     clash |-> FALSE]

Other(k) == 3 - k

\* job k touches the file at path q: a clash when the other job wrote it
Touches(f, k, q) == f.fs[q] = Other(k)

\* what the speech service leaves at the path
SaveOutcomes == {"audio", "short", "nothing"}

\* generate_audio_male_only: a stale file is removed and the audio saved;
\* without a file of more than 100 bytes the job is over
ParAudioStep(f, k, saved) ==
    LET q == AudioPathOf(f.job[k])
    IN [f EXCEPT !.clash = f.clash \/ Touches(f, k, q),
                 !.fs[q] = IF saved = "nothing" THEN 0 ELSE k,
                 !.pc[k] = IF saved = "audio" THEN "video" ELSE "done"]

\* create_cinematic_video: the audio is read and the output written
ParVideoStep(f, k) ==
    LET q == AudioPathOf(f.job[k])
        o == VideoPathOf(f.job[k])
    IN [f EXCEPT !.clash = f.clash \/ f.fs[q] # k \/ Touches(f, k, o),
                 !.fs[o] = k,
                 !.pc[k] = "cleanup"]

\* if os.path.exists(audio_file_path): os.remove(audio_file_path)
ParCleanupStep(f, k) ==
    LET q == AudioPathOf(f.job[k])
    IN [f EXCEPT !.clash = f.clash \/ Touches(f, k, q),
                 !.fs[q] = 0,
                 !.pc[k] = "done"]

\* ------------------------------------------------------------------
\* The run loop: projects x languages, one job each
\* ------------------------------------------------------------------
\* language codes of the LANGUAGES table the model runs
LangCodes == <<"es", "ar">>

Jobs == (1..NumProjects) \X (1..Len(LangCodes))

\* get_video_files / get_captions of a project directory: the caption lines
\* are stripped and non-empty
ProjectDirs ==
    { [videos |-> <<>>,     captions |-> << <<"c">> >>],
      [videos |-> <<1>>,    captions |-> <<>>],
      [videos |-> <<1>>,    captions |-> << <<"c">> >>],
      [videos |-> <<1, 2>>, captions |-> << <<"a", " ", "b">>, <<"c">> >>] }

\* GoogleTranslator(...).translate(cap): a text, or an exception
TranslatorResults ==
    { [ok |-> FALSE, text |-> <<>>],
      [ok |-> TRUE,  text |-> <<"x">>],
      [ok |-> TRUE,  text |-> <<"x", " ", "y">>] }

\* a file of the temp directory
NoFile == [exists |-> FALSE, size |-> 0]
MinAudioBytes == 100

\* edge-tts: raises or returns, leaving no file or a file of some size
TTSResults ==
    { [raises |-> r, file |-> fl] :
        r \in BOOLEAN,
        fl \in { NoFile, [exists |-> TRUE, size |-> MinAudioBytes],
                 [exists |-> TRUE, size |-> MinAudioBytes + 1] } }

\* ------------------------------------------------------------------
\* translate_srt: one subtitle file translated into every target language
\* ------------------------------------------------------------------
MaxSubs == 2
NumTargets == 2

TARGET_LANGUAGES ==
    << [name |-> "Spanish",    code |-> "es"],
       [name |-> "French",     code |-> "fr"],
       [name |-> "Arabic",     code |-> "ar"],
       [name |-> "Russian",    code |-> "ru"],
       [name |-> "Portuguese", code |-> "pt"],
       [name |-> "Indonesian", code |-> "id"],
       [name |-> "German",     code |-> "de"],
       [name |-> "Japanese",   code |-> "ja"],
       [name |-> "Turkish",    code |-> "tr"],
       [name |-> "Vietnamese", code |-> "vi"],
       [name |-> "Hindi",      code |-> "hi"],
       [name |-> "Urdu",       code |-> "ur"],
       [name |-> "Italian",    code |-> "it"] >>

\* the languages of the table the loop goes through
Targets == 1..NumTargets

\* a subtitle text: the source words, then the code of every translation
\* it went through; a text of white space only
BlankText == <<" ">>
SubTexts == { BlankText, <<"hello">>, <<"bye">> }

\* not original_text.strip()
IsBlank(text) == text = BlankText

\* translator.translate(original_text) into the language of the code
TranslateText(text, lang_code) == Append(text, lang_code)

NotSaved == [written |-> FALSE, subs |-> <<>>]

IdleSRT ==
    [pc |-> "idle", original |-> <<>>, li |-> 1, subs |-> <<>>,
     outcomes |-> [l \in Targets |-> <<>>],
     saved |-> [l \in Targets |-> NotSaved],
     failed |-> {}]

\* lines 33-36: without the input file the function returns at once
SRTEnter(inputExists, original) ==
    [IdleSRT EXCEPT !.pc = IF inputExists THEN "open" ELSE "returned",
                    !.original = original]

\* the next iteration of the language loop
NextTarget(f) ==
    [f EXCEPT !.li = f.li + 1, !.pc = IF f.li < NumTargets THEN "open" ELSE "done"]

\* the subtitles of the previous language carried over
Reload_Keep(original, subs) == IF subs = <<>> THEN original ELSE subs

\* subs = pysrt.open(INPUT_PATH, encoding='utf-8')
Reload(original, subs) == original

\* lines 52-55: an exception of the open or of the translator's constructor
\* is caught by the except of line 84
SRTOpen(f, opens) ==
    IF opens
    THEN [f EXCEPT !.pc = "translate", !.subs = Reload(f.original, f.subs)]
    ELSE NextTarget([f EXCEPT !.failed = f.failed \cup {f.li}])

\* what happened to an entry: skipped as blank, translated, or an error
Outcome(text, result) == IF IsBlank(text) THEN "skipped" ELSE result

\* lines 58-74: sub.text is assigned only when translate returns
TranslateEntry(text, lang_code, result) ==
    IF Outcome(text, result) = "ok" THEN TranslateText(text, lang_code) ELSE text

SRTTranslate(f, results) ==
    LET code == TARGET_LANGUAGES[f.li].code
    IN [f EXCEPT !.pc = "save",
                 !.outcomes[f.li] =
                     [i \in 1..Len(f.subs) |-> Outcome(f.subs[i], results[i])],
                 !.subs = [i \in 1..Len(f.subs) |->
                              TranslateEntry(f.subs[i], code, results[i])]]

\* lines 77-85: subs.save(output_path); an exception is caught at line 84
SRTSave(f, saves) ==
    IF saves
    THEN NextTarget([f EXCEPT !.saved[f.li] = [written |-> TRUE, subs |-> f.subs]])
    ELSE NextTarget([f EXCEPT !.failed = f.failed \cup {f.li}])

\* ------------------------------------------------------------------
\* generate_audio_male_only on a frame of its locals and the target path
\* ------------------------------------------------------------------
\* what can lie at the target path before the call
StaleFiles ==
    { NoFile, [exists |-> TRUE, size |-> MinAudioBytes],
      [exists |-> TRUE, size |-> MinAudioBytes + 1] }

IdleGA ==
    [pc |-> "idle", output_file |-> <<>>, dirExists |-> FALSE, stale |-> NoFile,
     file |-> NoFile, fresh |-> FALSE, raised |-> FALSE, retval |-> "none"]

GAEnter(output_file, dirExists, stale) ==
    [IdleGA EXCEPT !.pc = "prepare", !.output_file = output_file,
                   !.dirExists = dirExists, !.stale = stale, !.file = stale]

\* the file at the path left where it is
RemoveStale_Keep(file) == file

\* if os.path.exists(output_file): os.remove(output_file)
RemoveStale(file) == IF file.exists THEN NoFile ELSE file

\* lines 148-153: the folder is made and a file at the path removed
GAPrepare(f) ==
    [f EXCEPT !.pc = "synthesize", !.dirExists = TRUE, !.file = RemoveStale(f.file)]

\* communicate.save(output_file): what the call writes replaces the file
\* at the path; a call that writes nothing leaves the path as it was
Save(before, written) == IF written.exists THEN written ELSE before

\* lines 155-165: the synthesis, the size test, and the except branch
GASynthesize(f, result) ==
    LET after == Save(f.file, result.file)
        ok == ~result.raises /\ after.exists /\ after.size > MinAudioBytes
    IN [f EXCEPT !.pc = "returned", !.file = after, !.fresh = result.file.exists,
                 !.raised = result.raises,
                 !.retval = IF ok THEN "True" ELSE "False"]

VARIABLES
    pil,             \* frame of create_pil_text_image
    par,             \* two jobs side by side and the files they touch
    ga,              \* frame of generate_audio_male_only
    srt,             \* frame of translate_srt
    transResults,    \* what the translator did for each caption of the job
    ccv,             \* frame of create_cinematic_video (stage by stage)
    mpc,             \* position of the run loop
    project,         \* index of the current project
    lang,            \* index of the current language
    videos,          \* the project's clip paths
    captions,        \* the project's caption lines
    trans_captions,  \* the job's translated captions
    audio_success,   \* result of generate_audio_male_only
    tempFile,        \* temp/{project}/temp_{lang}.mp3, per job
    outputs,         \* jobs whose output video was written
    savedLog,        \* jobs logged as "Saved to"
    attempted,       \* jobs whose language iteration started
    skipped,         \* projects skipped for missing assets
    jobResult        \* how each job ended

sideVars == <<pil, par, ga, srt>>

vars == <<sideVars, transResults, ccv, mpc, project, lang, videos, captions, trans_captions, audio_success,
          tempFile, outputs, savedLog, attempted, skipped, jobResult>>

runVars == <<transResults, mpc, project, lang, videos, captions, trans_captions, audio_success,
             tempFile, outputs, savedLog, attempted, skipped, jobResult>>

RunInit ==
    /\ project = 1
    /\ lang = 1
    /\ videos = <<>>
    /\ captions = <<>>
    /\ trans_captions = <<>>
    /\ audio_success = FALSE
    /\ tempFile = [j \in Jobs |-> NoFile]
    /\ outputs = {}
    /\ savedLog = {}
    /\ attempted = {}
    /\ skipped = {}
    /\ jobResult = [j \in Jobs |-> "none"]
    /\ transResults = <<>>
    /\ par = IdlePar
    /\ ga = IdleGA
    /\ srt = IdleSRT

\* ---------------- create_cinematic_video called on its own -------------
InitCCV ==
    /\ RunInit
    /\ mpc = "direct"
    /\ pil = IdleImage
    /\ \E k \in 0..MaxClips, caps \in SeqsUpTo(SentencePool, MaxSentences) :
          ccv = CCVEnter([i \in 1..k |-> i], caps)

LoadStep ==
    /\ ccv.pc = "load"
    /\ \E files \in [1..Len(ccv.video_paths) -> ClipFiles] : ccv' = CCVLoad(ccv, files)
    /\ UNCHANGED <<runVars, sideVars>>

ReconcileStep ==
    /\ ccv.pc = "reconcile"
    /\ \E audioFile \in AudioFiles : ccv' = CCVReconcile(ccv, audioFile)
    /\ UNCHANGED <<runVars, sideVars>>

TimelineStep ==
    /\ ccv.pc = "timeline"
    /\ ccv' = CCVTimeline(ccv)
    /\ UNCHANGED <<runVars, sideVars>>

RenderStep ==
    /\ ccv.pc = "encode"
    /\ \E encodeOk \in BOOLEAN : ccv' = CCVRender(ccv, encodeOk)
    /\ UNCHANGED <<runVars, sideVars>>

NextCCV == LoadStep \/ ReconcileStep \/ TimelineStep \/ RenderStep

SpecCCV == InitCCV /\ [][NextCCV]_vars

\* ---------------- the run loop of __main__ ------------------------------
Init ==
    /\ RunInit
    /\ mpc = "project"
    /\ ccv = IdleFrame
    /\ pil = IdleImage

Job == <<project, lang>>

\* os.remove(path)
Remove(fs, path) == [fs EXCEPT ![path] = NoFile]

\* for project_name in projects: load the assets, skip the project without them
StartProject ==
    /\ mpc = "project"
    /\ project <= NumProjects
    /\ \E dir \in ProjectDirs :
          /\ videos' = dir.videos
          /\ captions' = dir.captions
          /\ IF dir.videos = <<>> \/ dir.captions = <<>>
             THEN /\ skipped' = skipped \cup {project}
                  /\ project' = project + 1
                  /\ mpc' = "project"
                  /\ lang' = lang
             ELSE /\ skipped' = skipped
                  /\ project' = project
                  /\ mpc' = "translate"
                  /\ lang' = 1
    /\ UNCHANGED <<ccv, sideVars, transResults, trans_captions, audio_success,
                   tempFile, outputs, savedLog, attempted, jobResult>>

\* print("ALL PROJECTS FINISHED!")
Finish ==
    /\ mpc = "project"
    /\ project > NumProjects
    /\ mpc' = "done"
    /\ UNCHANGED <<ccv, sideVars, transResults, project, lang, videos, captions,
                   trans_captions, audio_success, tempFile, outputs, savedLog,
                   attempted, skipped, jobResult>>

\* the next iteration of the language loop, or of the project loop
NextJob ==
    IF lang < Len(LangCodes)
    THEN /\ lang' = lang + 1 /\ project' = project /\ mpc' = "translate"
    ELSE /\ lang' = lang /\ project' = project + 1 /\ mpc' = "project"

\* the failed sentences left out
TranslateAll_DropFailed(caps, results) ==
    LET kept == SelectSeq(results, LAMBDA r : r.ok)
    IN [i \in 1..Len(kept) |-> kept[i].text]

\* the list of the previous language job not reset
TranslateAll_Accumulate(caps, results) ==
    trans_captions
        \o [i \in 1..Len(caps) |-> IF results[i].ok THEN results[i].text ELSE caps[i]]

\* trans_captions = []; trans_captions.append(t) or, on an exception,
\* trans_captions.append(cap)
TranslateAll(caps, results) ==
    [i \in 1..Len(caps) |-> IF results[i].ok THEN results[i].text ELSE caps[i]]

\* STEP 1: TRANSLATE
Translate ==
    /\ mpc = "translate"
    /\ attempted' = attempted \cup {Job}
    /\ \E results \in [1..Len(captions) -> TranslatorResults] :
          /\ trans_captions' = TranslateAll(captions, results)
          /\ transResults' = results
    /\ mpc' = "audio"
    /\ UNCHANGED <<ccv, sideVars, project, lang, videos, captions, audio_success, tempFile,
                   outputs, savedLog, skipped, jobResult>>

\* os.path.exists(output_file) and os.path.getsize(output_file) > 100
AudioOk(result) ==
    ~result.raises /\ result.file.exists /\ result.file.size > MinAudioBytes

\* STEP 2: AUDIO (generate_audio_male_only), and the else branch of STEP 3
GenerateAudio ==
    /\ mpc = "audio"
    /\ \E result \in TTSResults :
          /\ tempFile' = [Remove(tempFile, Job) EXCEPT ![Job] = result.file]
          /\ audio_success' = AudioOk(result)
          /\ IF AudioOk(result)
             THEN /\ mpc' = "video" /\ UNCHANGED <<project, lang, jobResult>>
             ELSE /\ jobResult' = [jobResult EXCEPT ![Job] = "no_audio"]
                  /\ NextJob
    /\ UNCHANGED <<ccv, sideVars, transResults, videos, captions, trans_captions,
                   outputs, savedLog, attempted, skipped>>

\* STEP 3: VIDEO: create_cinematic_video, then the temp audio is removed and
\* "Saved to" is logged; an exception of the call ends the run
RenderVideo ==
    /\ mpc = "video"
    /\ \E files \in [1..Len(videos) -> ClipFiles], audioFile \in AudioFiles,
          encodeOk \in BOOLEAN :
          LET r == RunCCV(videos, trans_captions, files, audioFile, encodeOk)
          IN IF r.pc = "raised"
             THEN /\ mpc' = "crashed"
                  /\ jobResult' = [jobResult EXCEPT ![Job] = "raised"]
                  /\ UNCHANGED <<project, lang, tempFile, outputs, savedLog>>
             ELSE /\ jobResult' = [jobResult EXCEPT ![Job] = r.retval]
                  /\ outputs' = IF r.outputWritten THEN outputs \cup {Job} ELSE outputs
                  /\ tempFile' = Remove(tempFile, Job)
                  /\ savedLog' = savedLog \cup {Job}
                  /\ NextJob
    /\ UNCHANGED <<ccv, sideVars, transResults, videos, captions, trans_captions,
                   audio_success, attempted, skipped>>

Next == StartProject \/ Finish \/ Translate \/ GenerateAudio \/ RenderVideo

Spec == Init /\ [][Next]_vars

\* ---------------- create_pil_text_image called on its own --------------
InitPIL ==
    /\ RunInit
    /\ mpc = "direct"
    /\ ccv = IdleFrame
    /\ \E program \in Programs, text \in TextPool, lang_code \in LocaleCodes :
          pil = PILEnter(program, text, TARGET_WIDTH, TARGET_HEIGHT, lang_code)

RenderText ==
    /\ pil.pc = "call"
    /\ \E env \in FontEnvs, box \in TextBoxes : pil' = PILRender(pil, env, box)
    /\ UNCHANGED <<ccv, par, ga, srt, runVars>>

NextPIL == RenderText

SpecPIL == InitPIL /\ [][NextPIL]_vars

\* ---------------- two jobs of the run side by side ---------------------
InitPar ==
    /\ project = 1
    /\ lang = 1
    /\ videos = <<>>
    /\ captions = <<>>
    /\ trans_captions = <<>>
    /\ audio_success = FALSE
    /\ tempFile = [j \in Jobs |-> NoFile]
    /\ outputs = {}
    /\ savedLog = {}
    /\ attempted = {}
    /\ skipped = {}
    /\ jobResult = [j \in Jobs |-> "none"]
    /\ transResults = <<>>
    /\ mpc = "direct"
    /\ ccv = IdleFrame
    /\ pil = IdleImage
    /\ ga = IdleGA
    /\ srt = IdleSRT
    /\ \E j1 \in ParJobs, j2 \in ParJobs : j1 # j2 /\ par = ParEnter(j1, j2)

ParAudio(k) ==
    /\ par.pc[k] = "audio"
    /\ \E saved \in SaveOutcomes : par' = ParAudioStep(par, k, saved)
    /\ UNCHANGED <<ccv, pil, ga, srt, runVars>>

ParVideo(k) ==
    /\ par.pc[k] = "video"
    /\ par' = ParVideoStep(par, k)
    /\ UNCHANGED <<ccv, pil, ga, srt, runVars>>

ParCleanup(k) ==
    /\ par.pc[k] = "cleanup"
    /\ par' = ParCleanupStep(par, k)
    /\ UNCHANGED <<ccv, pil, ga, srt, runVars>>

NextPar == \E k \in {1, 2} : ParAudio(k) \/ ParVideo(k) \/ ParCleanup(k)

SpecPar == InitPar /\ [][NextPar]_vars

\* ---------------- generate_audio_male_only called on its own ----------
InitGA ==
    /\ project = 1
    /\ lang = 1
    /\ videos = <<>>
    /\ captions = <<>>
    /\ trans_captions = <<>>
    /\ audio_success = FALSE
    /\ tempFile = [j \in Jobs |-> NoFile]
    /\ outputs = {}
    /\ savedLog = {}
    /\ attempted = {}
    /\ skipped = {}
    /\ jobResult = [j \in Jobs |-> "none"]
    /\ transResults = <<>>
    /\ mpc = "direct"
    /\ ccv = IdleFrame
    /\ pil = IdleImage
    /\ par = IdlePar
    /\ srt = IdleSRT
    /\ \E j \in ParJobs, dirExists \in BOOLEAN, stale \in StaleFiles :
          /\ stale.exists => dirExists
          /\ ga = GAEnter(AudioPathOf(j), dirExists, stale)

PrepareStep ==
    /\ ga.pc = "prepare"
    /\ ga' = GAPrepare(ga)
    /\ UNCHANGED <<ccv, pil, par, srt, runVars>>

SynthesizeStep ==
    /\ ga.pc = "synthesize"
    /\ \E result \in TTSResults : ga' = GASynthesize(ga, result)
    /\ UNCHANGED <<ccv, pil, par, srt, runVars>>

NextGA == PrepareStep \/ SynthesizeStep

SpecGA == InitGA /\ [][NextGA]_vars

\* ---------------- translate_srt called on its own ---------------------
InitSRT ==
    /\ project = 1
    /\ lang = 1
    /\ videos = <<>>
    /\ captions = <<>>
    /\ trans_captions = <<>>
    /\ audio_success = FALSE
    /\ tempFile = [j \in Jobs |-> NoFile]
    /\ outputs = {}
    /\ savedLog = {}
    /\ attempted = {}
    /\ skipped = {}
    /\ jobResult = [j \in Jobs |-> "none"]
    /\ transResults = <<>>
    /\ mpc = "direct"
    /\ ccv = IdleFrame
    /\ pil = IdleImage
    /\ par = IdlePar
    /\ ga = IdleGA
    /\ \E inputExists \in BOOLEAN, original \in SeqsUpTo(SubTexts, MaxSubs) :
          /\ ~inputExists => original = <<>>
          /\ srt = SRTEnter(inputExists, original)

OpenStep ==
    /\ srt.pc = "open"
    /\ \E opens \in BOOLEAN : srt' = SRTOpen(srt, opens)
    /\ UNCHANGED <<ccv, pil, par, ga, runVars>>

TranslateStep ==
    /\ srt.pc = "translate"
    /\ \E results \in [1..Len(srt.subs) -> {"ok", "error"}] :
          srt' = SRTTranslate(srt, results)
    /\ UNCHANGED <<ccv, pil, par, ga, runVars>>

SaveStep ==
    /\ srt.pc = "save"
    /\ \E saves \in BOOLEAN : srt' = SRTSave(srt, saves)
    /\ UNCHANGED <<ccv, pil, par, ga, runVars>>

NextSRT == OpenStep \/ TranslateStep \/ SaveStep

SpecSRT == InitSRT /\ [][NextSRT]_vars

\* ------------------------------------------------------------------
\* Properties of create_cinematic_video (checked under SpecCCV)
\* ------------------------------------------------------------------
Exited == ccv.pc \in {"returned", "raised"}

\* the timeline loop has run to its end
TimelineBuilt == ccv.pc = "encode" \/ ccv.encodeCalls > 0

\* the try block around the audio has completed without an exception
Reconciled == ccv.final_bg.hasAudio

HasWords(sentence) == Split(sentence) # <<>>

NonEmptyCount(caps) == Cardinality({i \in 1..Len(caps) : HasWords(caps[i])})

RECURSIVE TotalDuration(_, _)
TotalDuration(clips, i) ==
    IF i > Len(clips) THEN Zero ELSE RAdd(clips[i].duration, TotalDuration(clips, i + 1))

Contiguous(clips) ==
    /\ clips # <<>> => clips[1].start = Zero
    /\ \A i \in 1..(Len(clips) - 1) :
          clips[i + 1].start = RAdd(clips[i].start, clips[i].duration)

AllHaveWords(caps) == \A i \in 1..Len(caps) : HasWords(caps[i])

\* C1: for N >= 1 sentences that all have words and a duration D > 0, the
\* word events start at 0, each starts where the previous one ends, and their
\* durations sum to D.
C1_ContiguousSumToD ==
    (/\ TimelineBuilt
     /\ Len(ccv.captions_list) >= 1
     /\ AllHaveWords(ccv.captions_list)
     /\ RLess(Zero, ccv.final_bg.duration))
    => /\ ccv.text_clips # <<>>
       /\ Contiguous(ccv.text_clips)
       /\ TotalDuration(ccv.text_clips, 1) = ccv.final_bg.duration

C1_Witness ==
    /\ TimelineBuilt
    /\ Len(ccv.captions_list) = 2
    /\ AllHaveWords(ccv.captions_list)
    /\ Len(Split(ccv.captions_list[1])) = 2
    /\ Len(ccv.text_clips) = 3
    /\ ccv.final_bg.duration = RInt(3)
    /\ ccv.text_clips[3].start = <<3, 2>>

\* C2: with wordless and non-empty sentences mixed, the per-sentence share is
\* D divided by the number of non-empty sentences and the events end at D.
C2_ShareOverNonEmpty ==
    (/\ TimelineBuilt
     /\ NonEmptyCount(ccv.captions_list) >= 1
     /\ ~AllHaveWords(ccv.captions_list))
    => /\ ccv.duration_per_sentence =
             RDivInt(ccv.final_bg.duration, NonEmptyCount(ccv.captions_list))
       /\ ccv.current_time = ccv.final_bg.duration

\* C3: with zero sentences (an empty list, or only wordless sentences) no
\* error is raised by the caption stage: the caption layer is empty and the
\* encoder is still called.
C3_EmptyCaptionsRender ==
    (/\ Exited
     /\ Reconciled
     /\ NonEmptyCount(ccv.captions_list) = 0)
    => /\ ccv.raisedAt # "timeline"
       /\ ccv.text_clips = <<>>
       /\ ccv.encodeCalls = 1

\* C4: for a track of duration T > 0 and an audio of duration A > 0 the
\* reconciled track has duration exactly A.
C4_DurationEqualsAudio ==
    (Reconciled /\ RLess(Zero, ccv.audio.duration))
    => /\ RLess(Zero, ccv.final_bg.base)
       /\ ccv.final_bg.duration = ccv.audio.duration

C4_Witness ==
    /\ Reconciled
    /\ ccv.final_bg.looped
    /\ ccv.final_bg.pre # ccv.final_bg.duration
    /\ ccv.final_bg.duration = ccv.audio.duration

\* the least k with k * T >= A
Ceil(A, T) ==
    CHOOSE k \in 1..(RIntDiv(A, T) + 1) :
        /\ RLeq(A, RMulInt(T, k))
        /\ RLess(RMulInt(T, k - 1), A)

ExactMultiple(A, T) == \E k \in 1..(RIntDiv(A, T) + 1) : RMulInt(T, k) = A

\* C5 as stated: whenever the audio is longer than the track, loops is
\* ceil(audio.duration / track.duration), exact multiples included.
C5_LoopsIsCeil ==
    (Reconciled /\ RLess(ccv.final_bg.base, ccv.audio.duration))
    => /\ ccv.final_bg.looped
       /\ ccv.final_bg.loops = Ceil(ccv.audio.duration, ccv.final_bg.base)

\* C5 amended: whenever the audio is longer than the track, loops is
\* floor(audio.duration / track.duration) + 1: the ceiling when the audio
\* duration is no exact multiple of the track duration, one more when it is.
C5_LoopsIsFloorPlusOne ==
    (Reconciled /\ RLess(ccv.final_bg.base, ccv.audio.duration))
    => /\ ccv.final_bg.looped
       /\ ccv.final_bg.loops =
             IF ExactMultiple(ccv.audio.duration, ccv.final_bg.base)
             THEN Ceil(ccv.audio.duration, ccv.final_bg.base) + 1
             ELSE Ceil(ccv.audio.duration, ccv.final_bg.base)

C5_Witness ==
    /\ Reconciled
    /\ ccv.final_bg.looped
    /\ ExactMultiple(ccv.audio.duration, ccv.final_bg.base)
    /\ ccv.final_bg.loops = 3
    /\ ccv.final_bg.base = RInt(1)

\* C6: if none of the clip paths can be loaded, the function returns failure
\* without raising: no background track, no encoder call, no output file.
C6_NoClipsFails ==
    (/\ ccv.pc \notin {"idle", "load"}
     /\ \A i \in 1..Len(ccv.files) : ~Loadable(ccv.files[i]))
    => /\ ccv.pc = "returned"
       /\ ccv.retval = "False"
       /\ ~ccv.final_bg.exists
       /\ ccv.encodeCalls = 0
       /\ ~ccv.outputWritten

C6_Witness ==
    /\ ccv.pc = "returned"
    /\ ccv.retval = "False"
    /\ Len(ccv.video_paths) = 2
    /\ ~ccv.files[1].exists
    /\ ccv.files[2].exists /\ ~ccv.files[2].loads

\* C7: if the audio cannot be opened, or its duration is zero or unreadable,
\* the function returns failure, the encoder is never called and the audio
\* is loaded once only.
C7_BadAudioAborts ==
    (/\ ccv.audioLoads >= 1
     /\ (~AudioLoads(ccv.audio) \/ ccv.audio.duration = Zero))
    => /\ ccv.pc = "returned"
       /\ ccv.retval = "False"
       /\ ccv.encodeCalls = 0
       /\ ccv.audioLoads = 1

\* C9: on every exit after at least one clip was opened, every clip of
\* processed_clips and the composed track are closed.
C9_AllClosedOnExit ==
    (Exited /\ Len(ccv.processed_clips) >= 1)
    => /\ \A i \in 1..Len(ccv.processed_clips) : ccv.processed_clips[i].closed
       /\ ccv.videoClosed

Loaded == ccv.pc \notin {"idle", "load"}

\* the input paths that exist and load, in input order
RECURSIVE UsablePaths(_, _, _)
UsablePaths(paths, files, i) ==
    IF i > Len(paths) THEN <<>>
    ELSE IF files[i].exists /\ files[i].loads
         THEN <<paths[i]>> \o UsablePaths(paths, files, i + 1)
         ELSE UsablePaths(paths, files, i + 1)

ClipPaths(clips) == [i \in 1..Len(clips) |-> clips[i].path]

\* C12: the clips that are concatenated are exactly the input paths that
\* exist and load, in input order; a missing or failing path is skipped and
\* the later paths are still processed.
C12_ClipsAreUsablePathsInOrder ==
    Loaded =>
        /\ Len(ccv.files) = Len(ccv.video_paths)
        /\ ClipPaths(ccv.processed_clips) = UsablePaths(ccv.video_paths, ccv.files, 1)
        /\ ccv.final_bg.exists =>
              ccv.final_bg.base = SumDuration(ccv.processed_clips, 1)

C12_Witness ==
    /\ Loaded
    /\ Len(ccv.video_paths) = 2
    /\ ccv.files[1].exists /\ ~ccv.files[1].loads
    /\ ccv.files[2].loads
    /\ ClipPaths(ccv.processed_clips) = <<2>>
    /\ ccv.final_bg.exists

WordCount(sentence) == Len(Split(sentence))

\* the number of words of the sentences before sentence s
RECURSIVE WordsBefore(_, _)
WordsBefore(caps, s) ==
    IF s <= 1 THEN 0 ELSE WordsBefore(caps, s - 1) + WordCount(caps[s - 1])

\* the sentences "A B", "C" and their events for D = 3.0
ExampleCaptions == << <<"a", " ", "b">>, <<"c">> >>

ExampleEvents ==
    << [text |-> <<"A">>, start |-> Zero,     duration |-> <<3, 4>>],
       [text |-> <<"B">>, start |-> <<3, 4>>, duration |-> <<3, 4>>],
       [text |-> <<"C">>, start |-> <<3, 2>>, duration |-> <<3, 2>>] >>

\* C16: every sentence gets the share D / sentence_count, every word of a
\* sentence the equal share of the sentence's time whatever the length of
\* the text, each event starts at the running cursor; for "A B", "C" and
\* D = 3.0 the events are A[0, 0.75), B[0.75, 1.5), C[1.5, 3.0).
C16_EqualShares ==
    TimelineBuilt =>
        LET caps == ccv.captions_list
            D == ccv.final_bg.duration
            share == RDivInt(D, Len(caps))
        IN /\ ccv.duration_per_sentence = share
           /\ Len(ccv.text_clips) = WordsBefore(caps, Len(caps) + 1)
           /\ \A s \in 1..Len(caps) : \A w \in 1..WordCount(caps[s]) :
                 ccv.text_clips[WordsBefore(caps, s) + w].duration
                     = RDivInt(share, WordCount(caps[s]))
           /\ Contiguous(ccv.text_clips)
           /\ (caps = ExampleCaptions /\ D = RInt(3)) => ccv.text_clips = ExampleEvents

C16_Witness ==
    /\ ccv.pc = "encode"
    /\ ccv.captions_list = ExampleCaptions
    /\ ccv.text_clips = ExampleEvents
    /\ ccv.current_time = RInt(3)

\* C19: at the trim the (possibly looped) track is at least as long as the
\* audio, so the trim cuts the tail and never extends: for T > 0 and A > 0
\* the duration just before subclip(0, A) is >= A and the final duration
\* never exceeds A.
C19_TrimIsACut ==
    (/\ Reconciled
     /\ RLess(Zero, ccv.final_bg.base)
     /\ RLess(Zero, ccv.audio.duration))
    => /\ RLeq(ccv.audio.duration, ccv.final_bg.pre)
       /\ RLeq(ccv.final_bg.duration, ccv.audio.duration)
       /\ RLeq(ccv.final_bg.duration, ccv.final_bg.pre)

C19_Witness ==
    /\ Reconciled
    /\ ccv.final_bg.looped
    /\ ccv.final_bg.loops = 3
    /\ ccv.final_bg.base = <<1, 5>>
    /\ ccv.audio.duration = <<1, 2>>
    /\ ccv.final_bg.pre = <<3, 5>>

\* the file of the path a clip was loaded from
FileOf(clip) == ccv.files[clip.path]

\* C20: the tail trim removes exactly 0.15 s from a loaded clip if and only
\* if its duration exceeds 0.2 s and leaves shorter clips untouched; every
\* clip of the track keeps a strictly positive duration, more than 0.05 s
\* when trimmed.
C20_TailTrim ==
    Loaded =>
        \A i \in 1..Len(ccv.processed_clips) :
            LET clip == ccv.processed_clips[i]
                d == FileOf(clip).duration
            IN /\ RLess(<<1, 5>>, d) =>
                     /\ RAdd(clip.duration, <<3, 20>>) = d
                     /\ RLess(<<1, 20>>, clip.duration)
               /\ RLeq(d, <<1, 5>>) => clip.duration = d
               /\ RLess(Zero, clip.duration)

C20_Witness ==
    /\ Loaded
    /\ Len(ccv.processed_clips) = 2
    /\ FileOf(ccv.processed_clips[1]).duration = <<1, 5>>
    /\ ccv.processed_clips[1].duration = <<1, 5>>
    /\ FileOf(ccv.processed_clips[2]).duration = <<23, 20>>
    /\ ccv.processed_clips[2].duration = RInt(1)

EndOf(clip) == RAdd(clip.start, clip.duration)

C14_EncodeAfterAllStages ==
    /\ (ccv.pc = "encode" \/ ccv.encodeCalls > 0) =>
          /\ Len(ccv.processed_clips) >= 1
          /\ ccv.final_bg.exists
          /\ ccv.audioLoads = 1
          /\ ccv.audio.opens /\ ccv.audio.readable
          /\ ccv.final_bg.hasAudio
          /\ ccv.final_bg.duration = ccv.audio.duration
          /\ ccv.encodeCalls <= 1
    /\ (ccv.retval = "False" \/ ccv.raisedAt \in {"concatenate", "timeline"}) =>
          /\ ccv.encodeCalls = 0
          /\ ~ccv.outputWritten

C14_Witness ==
    /\ ccv.encodeCalls = 1
    /\ ccv.outputWritten
    /\ Len(ccv.video_paths) = 2
    /\ Len(ccv.processed_clips) = 1
    /\ ccv.final_bg.looped

\* ------------------------------------------------------------------
\* Properties of the run loop (checked under Spec)
\* ------------------------------------------------------------------
RunEnded == mpc \in {"done", "crashed"}

JobFailed(j) == jobResult[j] \in {"no_audio", "False", "raised"}

\* C8: a job-fatal failure leaves no output file for that job and every job
\* of the run is attempted: no failed job has an output, and when the run
\* ends every job of every project that has its assets was started.
C8_FailureKeepsSiblings ==
    /\ \A j \in Jobs : JobFailed(j) => j \notin outputs
    /\ RunEnded => \A j \in Jobs : j[1] \in skipped \/ j \in attempted

JobFinished(j) == j \in attempted /\ (RunEnded \/ j # Job)

\* C10: the temporary audio file of a job no longer exists once the job has
\* finished, and none persists after the run.

C10_TempAudioRemoved ==
    \A j \in Jobs : JobFinished(j) => ~tempFile[j].exists

\* C22: a job's video is logged as saved only if create_cinematic_video
\* succeeded for that job and wrote the output file; a job that failed (no
\* clips, audio failure) is never logged as saved.
C22_SavedOnlyIfWritten ==
    \A j \in savedLog : jobResult[j] = "True" /\ j \in outputs

\* C15: a sentence whose translation fails is replaced by the original
\* sentence, so the translated list has the length and the order of the
\* source list, and the job goes on to the audio generation.
C15_FallbackKeepsShape ==
    mpc \in {"audio", "video"} =>
        /\ Job \in attempted
        /\ Len(transResults) = Len(captions)
        /\ Len(trans_captions) = Len(captions)
        /\ \A i \in 1..Len(captions) :
              trans_captions[i] = IF transResults[i].ok THEN transResults[i].text
                                  ELSE captions[i]

C15_Witness ==
    /\ mpc = "audio"
    /\ Len(captions) = 2
    /\ ~transResults[1].ok /\ transResults[2].ok
    /\ trans_captions[1] = captions[1]
    /\ trans_captions[2] = transResults[2].text

\* C17: a language job leaves the project's caption list and clip path list
\* unchanged and builds its translated captions from an empty list, from the
\* source captions and its own translations only.
JobStepKeepsSources ==
    mpc \in {"translate", "audio", "video"} =>
        /\ videos' = videos
        /\ captions' = captions
        /\ mpc = "translate" =>
              /\ Len(trans_captions') = Len(captions)
              /\ \A i \in 1..Len(captions) :
                    trans_captions'[i] = IF transResults'[i].ok
                                         THEN transResults'[i].text
                                         ELSE captions[i]
        /\ mpc # "translate" => trans_captions' = trans_captions

C17_JobLeavesSourcesAlone == [][JobStepKeepsSources]_vars

C17_Witness ==
    /\ mpc = "audio"
    /\ lang = 2
    /\ jobResult[<<project, 1>>] = "True"
    /\ Len(captions) = 2
    /\ Len(trans_captions) = 2

\* ------------------------------------------------------------------
\* Properties of create_pil_text_image (checked under SpecPIL)
\* ------------------------------------------------------------------
Rendered == pil.pc = "returned"

FontChain == <<"script", "system", "default">>

\* C11: the font stages are tried in the order script-specific, generic
\* system, built-in default; a failure at one stage falls through to the
\* next one without skipping any, and the function ends with a usable font.
C11_FontChainInOrder ==
    Rendered =>
        /\ Len(pil.tried) \in 1..Len(FontChain)
        /\ \A i \in 1..Len(pil.tried) : pil.tried[i] = FontChain[i]
        /\ pil.font = pil.tried[Len(pil.tried)]
        /\ pil.font \in {"script", "system", "default"}

\* what the locale alone asks for
ExpectedFinalText(text, lang_code) ==
    IF lang_code = "ar" /\ text = <<"alef", "ba">>
    THEN <<"ba_form", "alef_form">>
    ELSE text

CommonPolicy ==
    /\ pil.reshaped <=> (pil.lang_code = "ar")
    /\ pil.final_text = ExpectedFinalText(pil.text, pil.lang_code)
    /\ pil.img_size = <<TARGET_WIDTH, TARGET_HEIGHT>>
    /\ pil.text_w = 200 => pil.x_pos = 440
    /\ pil.text_w = 1201 => pil.x_pos = -61
    /\ pil.text_h = 100 => pil.y_pos = 910
    /\ pil.text_h = 151 => pil.y_pos = 884

ThreeWayPolicy ==
    /\ pil.lang_code = "ar" =>
          pil.target_font_size = 108 /\ pil.font_to_use = "ARABIC_FONT_PATH"
    /\ pil.lang_code = "ja" =>
          pil.target_font_size = 129 /\ pil.font_to_use = "JAPANESE_FONT_PATH"
    /\ pil.lang_code \notin {"ar", "ja"} =>
          pil.target_font_size = 140 /\ pil.font_to_use = "FONT_PATH"

TwoWayPolicy ==
    /\ pil.lang_code = "ar" =>
          pil.target_font_size = 108 /\ pil.font_to_use = "ARABIC_FONT_PATH"
    /\ pil.lang_code # "ar" =>
          pil.target_font_size = 140 /\ pil.font_to_use = "FONT_PATH"

C13_JobsKeepToTheirFiles ==
    par.pc # <<"idle", "idle">> =>
        /\ Cardinality(DOMAIN par.fs) = 4
        /\ ~par.clash
        /\ \A k \in {1, 2} :
              par.pc[k] \in {"video", "cleanup"} => par.fs[AudioPathOf(par.job[k])] = k

C13_Witness ==
    /\ par.pc = <<"video", "cleanup">>
    /\ par.job[1][1] # par.job[2][1]
    /\ par.job[1][2] = par.job[2][2]
    /\ par.fs[AudioPathOf(par.job[1])] = 1
    /\ par.fs[AudioPathOf(par.job[2])] = 2
    /\ par.fs[VideoPathOf(par.job[2])] = 2

\* ------------------------------------------------------------------
\* Properties of generate_audio_male_only (checked under SpecGA)
\* ------------------------------------------------------------------
\* C23: the function returns True only if the file at the target path was
\* written by the current call and has more than 100 bytes; a stale file at
\* the path is removed before the synthesis, so it never makes a failed
\* synthesis return True; an exception of the synthesis gives False.
C23_TrueOnlyForFreshAudio ==
    /\ ga.pc = "synthesize" => ~ga.file.exists
    /\ ga.pc = "returned" =>
          /\ ga.retval \in {"True", "False"}
          /\ ga.retval = "True" =>
                /\ ga.fresh
                /\ ga.file.exists
                /\ ga.file.size > 100
          /\ ga.raised => ga.retval = "False"

C23_Witness ==
    /\ ga.pc = "returned"
    /\ ga.stale.exists /\ ga.stale.size > 100
    /\ ~ga.fresh
    /\ ~ga.raised
    /\ ~ga.file.exists
    /\ ga.retval = "False"

\* ------------------------------------------------------------------
\* Properties of translate_srt (checked under SpecSRT)
\* ------------------------------------------------------------------
\* the entry a language's file must hold for an entry of the input
ExpectedEntry(text, lang_code, outcome) ==
    IF outcome = "ok" THEN Append(text, lang_code) ELSE text

\* C24: every target language is translated from a fresh copy of the
\* original subtitles; an entry whose translation fails keeps its text, the
\* other entries are still translated and the file is saved with the same
\* number of entries; a language that fails as a whole does not stop the
\* later languages.
C24_EveryLanguageFromTheOriginal ==
    /\ \A l \in Targets :
          srt.saved[l].written =>
              /\ Len(srt.saved[l].subs) = Len(srt.original)
              /\ Len(srt.outcomes[l]) = Len(srt.original)
              /\ \A i \in 1..Len(srt.original) :
                    srt.saved[l].subs[i]
                        = ExpectedEntry(srt.original[i], TARGET_LANGUAGES[l].code,
                                        srt.outcomes[l][i])
    /\ srt.pc \in {"open", "translate", "save"} =>
          \A l \in 1..(srt.li - 1) : l \in srt.failed \/ srt.saved[l].written
    /\ srt.pc = "done" =>
          \A l \in Targets : l \in srt.failed \/ srt.saved[l].written

C24_Witness ==
    /\ srt.pc = "done"
    /\ Len(srt.original) = 2
    /\ 1 \in srt.failed
    /\ srt.saved[2].written
    /\ srt.outcomes[2] = <<"error", "ok">>
    /\ srt.saved[2].subs[1] = srt.original[1]
    /\ srt.saved[2].subs[2] = Append(srt.original[2], "fr")

====
